---------------------------- MODULE Spec2Model ----------------------------
(***************************************************************************)
(* One run of the research digest generator (src/digest.py): main() loads  *)
(* the configuration, fetches the feeds, asks the generative model to rank *)
(* the papers, renders the answer as HTML and delivers it.                 *)
(*                                                                         *)
(* Python strings are TLA+ strings.  A value that may be None is an option *)
(* (None or Some(v)).  Everything that comes from outside the process (the *)
(* configuration file, the environment, the feeds, the model's answer, the *)
(* mail relay, the clock) is an input chosen when the code reads it.       *)
(***************************************************************************)
EXTENDS Naturals, Sequences, FiniteSets, TLC

VARIABLES
    pc,              \* where main() is: start, fetching, ranking, rendering,
                     \* sending, completing, done, aborted
    config,          \* the value load_config() returned
    fi,              \* fetch_papers: index of the next feed of the for loop
    papers,          \* fetch_papers: the list being built, then main's papers
    served,          \* history: number of entries each parsed feed held
    api_key,         \* filter_and_rank_papers: what os.environ.get returned
    papers_list,     \* filter_and_rank_papers: the candidate lines
    prompt,          \* filter_and_rank_papers: the prompt handed to the model
    response,        \* history: the text the model answered
    digest_content,  \* main: the value filter_and_rank_papers returned
    passes,          \* generate_html_email: digest_content after each pass
    html,            \* main: html_email
    sender_email,    \* send_email: what os.environ.get('GMAIL_ADDRESS') returned
    sender_password, \* send_email: what os.environ.get('GMAIL_APP_PASSWORD') returned
    msg,             \* send_email: the message built for the relay
    delivered,       \* history: the messages the relay accepted
    console,         \* the lines printed so far
    net,             \* history: the calls made to the outside, in order
    envreads,        \* history: the environment variables read, in order
    err,             \* the exception that ended the run
    failures         \* history: the stages at which something was raised

vars == <<pc, config, fi, papers, served, api_key, papers_list, prompt,
          response, digest_content, passes, html, sender_email, sender_password,
          msg, delivered, console, net, envreads, err, failures>>

---------------------------------------------------------------------------
(* Bounds of the model. *)

\* longest feed list of a configuration
MaxFeeds == 4
\* number of entries of a short feed
SmallFeed == 3
\* longest text the model answers in the renderer runs
MaxText == 4

(* Constants of the program. *)

\* feed.entries[:50]
FeedCap == 50
\* papers[:150]
CandidateCap == 150
\* p['summary'][:400]
AbstractCap == 400
\* html_content[:500]
PreviewLen == 500

---------------------------------------------------------------------------
(* Python values. *)

None == <<>>
Some(v) == <<v>>

Min(a, b) == IF a <= b THEN a ELSE b

\* s[:n] for a list or a string
Slice(s, n) == SubSeq(s, 1, Min(n, Len(s)))

\* d.get(k, default) on a dict
Get(d, k, default) == IF k \in DOMAIN d THEN d[k] ELSE default

\* no exception
NoError == [type |-> "", msg |-> ""]

Exception(type, text) == [type |-> type, msg |-> text]

\* s * n
RECURSIVE Repeat(_, _)
Repeat(s, n) ==
    IF n = 0 THEN ""
    ELSE IF n = 1 THEN s
    ELSE Repeat(s, n \div 2) \o Repeat(s, n - n \div 2)

\* sep.join(lines)
RECURSIVE Join(_, _)
Join(lines, sep) ==
    IF Len(lines) = 0 THEN ""
    ELSE IF Len(lines) = 1 THEN lines[1]
    ELSE Join(SubSeq(lines, 1, Len(lines) \div 2), sep) \o sep
             \o Join(SubSeq(lines, Len(lines) \div 2 + 1, Len(lines)), sep)

---------------------------------------------------------------------------
(* The inputs: configurations, feeds, environment values, model answers.   *)

FeedSource(i) ==
    [name |-> "Source" \o ToString(i), url |-> "http://feed" \o ToString(i)]

FeedList(k) == [i \in 1..k |-> FeedSource(i)]

ConfigKeys == {"email", "feeds", "research_interests", "max_papers", "email_method"}

FullConfig(k, method) ==
    [key \in ConfigKeys |->
        CASE key = "email" -> "reader@example.org"
          [] key = "feeds" -> FeedList(k)
          [] key = "research_interests" -> "development economics"
          [] key = "max_papers" -> 10
          [] key = "email_method" -> method]

Without(c, key) == [k \in DOMAIN c \ {key} |-> c[k]]

EmailMethods == {"print", "gmail", "unsupported", "Gmail", ""}

\* the documents config.yaml may hold: every feed list with every delivery
\* mode (or none), and one document for each key that can be missing
Configs ==
    {FullConfig(k, m) : k \in 0..MaxFeeds, m \in EmailMethods}
    \cup {Without(FullConfig(k, "print"), "email_method") : k \in 0..MaxFeeds}
    \cup {Without(FullConfig(1, "print"), key) :
              key \in {"email", "feeds", "research_interests", "max_papers"}}

\* the fields a feed entry carries: some entries lack a title, a summary or a link
EntryKeys(j) ==
    {k \in {"title", "summary", "link"} :
        \/ k = "title" /\ j % 4 # 0
        \/ k = "summary" /\ j % 3 # 0
        \/ k = "link" /\ j % 5 # 0}

\* a summary longer than the abstract kept in the prompt
LongSummary == Repeat("0123456789", 41)

Entry(url, j) ==
    [k \in EntryKeys(j) |->
        CASE k = "title" -> "Paper " \o ToString(j) \o " of " \o url
          [] k = "summary" -> IF j % 7 = 1 THEN LongSummary
                              ELSE "Abstract " \o ToString(j)
          [] k = "link" -> url \o "/" \o ToString(j)]

\* feed.entries of a feed that holds n entries
FeedEntries(url, n) == [j \in 1..n |-> Entry(url, j)]

FeedSizes == {0, SmallFeed, FeedCap, FeedCap + 1}

EnvValues == {None, Some(""), Some("secret")}

Dates == {[long |-> "November 05, 2026", iso |-> "2026-11-05"],
          [long |-> "May 31, 2027", iso |-> "2027-05-31"]}

---------------------------------------------------------------------------
(* Strings and the regular expressions of generate_html_email.  re.sub     *)
(* scans the text from the left; where the pattern matches it writes the   *)
(* replacement and goes on after the match; the text between two matches  *)
(* is copied.                                                              *)

Char(s, i) == SubSeq(s, i, i)

\* the literal lit stands in s at position i
StartsAt(s, i, lit) ==
    /\ i >= 1
    /\ i + Len(lit) - 1 <= Len(s)
    /\ SubSeq(s, i, i + Len(lit) - 1) = lit

\* \s of the regular expressions
IsSpace(c) == c \in {" ", "\t", "\n", "\r", "\f"}

\* . of the regular expressions: any character but a newline
NoNewline(s, a, b) == \A k \in a..b : Char(s, k) # "\n"

Least(S) == CHOOSE x \in S : \A y \in S : x <= y
Greatest(S) == CHOOSE x \in S : \A y \in S : x >= y

\* the number of whitespace characters of s from position p on
RECURSIVE SpaceRun(_, _)
SpaceRun(s, p) ==
    IF p <= Len(s) /\ IsSpace(Char(s, p)) THEN 1 + SpaceRun(s, p + 1) ELSE 0

\* the last position of the greedy .+ that starts at g
LineEnd(s, g) == Greatest({e \in g..Len(s) : NoNewline(s, g, e)})

\* ###\s+(.+) tried at i: where its group starts, 0 when it does not match.
\* \s+ takes all the whitespace and gives it back one character at a time
\* until one character that is no newline is left for the group.
HeadingGroup(s, i) ==
    IF ~StartsAt(s, i, "###") THEN 0
    ELSE LET w == SpaceRun(s, i + 3)
             G == {i + 3 + k : k \in 1..w}
             ok == {g \in G : g <= Len(s) /\ Char(s, g) # "\n"}
         IN  IF ok = {} THEN 0 ELSE Greatest(ok)

\* the scan from position i on: the leftmost match at or after i is replaced
RECURSIVE HeadingScan(_, _)
HeadingScan(s, i) ==
    LET M == {k \in i..Len(s) : HeadingGroup(s, k) # 0}
    IN  IF M = {} THEN SubSeq(s, i, Len(s))
        ELSE LET k == Least(M)
                 g == HeadingGroup(s, k)
             IN  SubSeq(s, i, k - 1)
                     \o "<h3>" \o SubSeq(s, g, LineEnd(s, g)) \o "</h3>"
                     \o HeadingScan(s, LineEnd(s, g) + 1)

\* re.sub(r'###\s+(.+)', r'<h3>\1</h3>', s)
SubHeadings(s) == HeadingScan(s, 1)

\* \*\*(.+?)\*\* tried at i: where the closing ** stands, 0 when it does not match
BoldClose(s, i) ==
    IF ~StartsAt(s, i, "**") THEN 0
    ELSE LET C == {j \in (i + 3)..Len(s) :
                       StartsAt(s, j, "**") /\ NoNewline(s, i + 2, j - 1)}
         IN  IF C = {} THEN 0 ELSE Least(C)

RECURSIVE BoldScan(_, _)
BoldScan(s, i) ==
    LET M == {k \in i..Len(s) : BoldClose(s, k) # 0}
    IN  IF M = {} THEN SubSeq(s, i, Len(s))
        ELSE LET k == Least(M)
                 j == BoldClose(s, k)
             IN  SubSeq(s, i, k - 1)
                     \o "<strong>" \o SubSeq(s, k + 2, j - 1) \o "</strong>"
                     \o BoldScan(s, j + 2)

\* re.sub(r'\*\*(.+?)\*\*', r'<strong>\1</strong>', s)
SubBold(s) == BoldScan(s, 1)

\* the ) that ends the url of a link whose ]( stands at j, 0 when there is none
LinkEnd(s, j) ==
    LET M == {m \in (j + 3)..Len(s) :
                  Char(s, m) = ")" /\ NoNewline(s, j + 2, m - 1)}
    IN  IF M = {} THEN 0 ELSE Least(M)

\* \[(.+?)\]\((.+?)\) tried at i: where its ]( stands, 0 when it does not match
LinkMiddle(s, i) ==
    IF ~StartsAt(s, i, "[") THEN 0
    ELSE LET J == {j \in (i + 2)..Len(s) :
                       /\ StartsAt(s, j, "](")
                       /\ NoNewline(s, i + 1, j - 1)
                       /\ LinkEnd(s, j) # 0}
         IN  IF J = {} THEN 0 ELSE Least(J)

RECURSIVE LinkScan(_, _)
LinkScan(s, i) ==
    LET M == {k \in i..Len(s) : LinkMiddle(s, k) # 0}
    IN  IF M = {} THEN SubSeq(s, i, Len(s))
        ELSE LET k == Least(M)
                 j == LinkMiddle(s, k)
             IN  SubSeq(s, i, k - 1)
                     \o "<a href=\"" \o SubSeq(s, j + 2, LinkEnd(s, j) - 1) \o "\">"
                     \o SubSeq(s, k + 1, j - 1) \o "</a>"
                     \o LinkScan(s, LinkEnd(s, j) + 1)

\* re.sub(r'\[(.+?)\]\((.+?)\)', r'<a href="\2">\1</a>', s)
SubLinks(s) == LinkScan(s, 1)

RECURSIVE BreakScan(_, _)
BreakScan(s, i) ==
    LET M == {k \in i..Len(s) : StartsAt(s, k, "\n\n")}
    IN  IF M = {} THEN SubSeq(s, i, Len(s))
        ELSE SubSeq(s, i, Least(M) - 1) \o "<br><br>" \o BreakScan(s, Least(M) + 2)

\* every newline made a break, in place of every double newline
RECURSIVE NewlineBreaks(_)
NewlineBreaks(s) ==
    LET M == {k \in 1..Len(s) : Char(s, k) = "\n"}
    IN  IF M = {} THEN s
        ELSE SubSeq(s, 1, Least(M) - 1) \o "<br>"
                 \o NewlineBreaks(SubSeq(s, Least(M) + 1, Len(s)))

\* s.replace('\n\n', '<br><br>')
ReplaceBreaks(s) == BreakScan(s, 1)

\* the text after each of the four passes, in the order the code applies them
Passes(s) ==
    LET h == SubHeadings(s)
        b == SubBold(h)
        l == SubLinks(b)
    IN  <<h, b, l, ReplaceBreaks(l)>>

\* the document around the date and the digest (the non-ASCII characters of
\* the banner are written ?)
HtmlHead1 ==
    "\n"
    \o "    <html>\n"
    \o "    <head>\n"
    \o "        <meta charset=\"UTF-8\">\n"
    \o "        <meta name=\"viewport\" content=\"width=device-width, initial-scale=1.0\">\n"
    \o "        <style>\n"
    \o "            body {\n"
    \o "                font-family: -apple-system, BlinkMacSystemFont, 'Segoe UI', Roboto, Helvetica, Arial, sans-serif;\n"

HtmlHead2 ==
    "                line-height: 1.6;\n"
    \o "                color: #1a1a1a;\n"
    \o "                max-width: 700px;\n"
    \o "                margin: 0 auto;\n"
    \o "                padding: 20px;\n"
    \o "                background-color: #ffffff;\n"
    \o "            }\n"
    \o "            h1 {\n"

HtmlHead3 ==
    "                color: #0060df;\n"
    \o "                font-size: 28px;\n"
    \o "                margin-bottom: 10px;\n"
    \o "                border-bottom: 3px solid #0060df;\n"
    \o "                padding-bottom: 10px;\n"
    \o "            }\n"
    \o "            h3 {\n"
    \o "                color: #003d99;\n"

HtmlHead4 ==
    "                font-size: 18px;\n"
    \o "                margin-top: 30px;\n"
    \o "                margin-bottom: 12px;\n"
    \o "                line-height: 1.4;\n"
    \o "            }\n"
    \o "            .meta {\n"
    \o "                color: #666;\n"
    \o "                font-size: 14px;\n"

HtmlHead5 ==
    "                margin-bottom: 30px;\n"
    \o "            }\n"
    \o "            a {\n"
    \o "                color: #0060df;\n"
    \o "                text-decoration: none;\n"
    \o "                font-weight: 500;\n"
    \o "            }\n"
    \o "            a:hover {\n"

HtmlHead6 ==
    "                color: #003d99;\n"
    \o "                text-decoration: underline;\n"
    \o "            }\n"
    \o "            strong {\n"
    \o "                color: #003d99;\n"
    \o "                font-weight: 600;\n"
    \o "            }\n"
    \o "            hr {\n"

HtmlHead7 ==
    "                border: none;\n"
    \o "                border-top: 1px solid #e0e0e0;\n"
    \o "                margin: 40px 0 20px 0;\n"
    \o "            }\n"
    \o "            .footer {\n"
    \o "                color: #999;\n"
    \o "                font-size: 13px;\n"
    \o "                margin-top: 40px;\n"

HtmlHead8 ==
    "                padding-top: 20px;\n"
    \o "                border-top: 1px solid #e0e0e0;\n"
    \o "            }\n"
    \o "            .summary {\n"
    \o "                background-color: #f8f9fa;\n"
    \o "                padding: 15px;\n"
    \o "                border-radius: 8px;\n"
    \o "                margin: 20px 0;\n"

HtmlHead9 ==
    "                font-style: italic;\n"
    \o "                color: #555;\n"
    \o "            }\n"
    \o "        </style>\n"
    \o "    </head>\n"
    \o "    <body>\n"
    \o "        <h1>???? Research Digest</h1>\n"
    \o "        <p class=\"meta\">"

\* the document up to the date
HtmlHead ==
    HtmlHead1
    \o HtmlHead2
    \o HtmlHead3
    \o HtmlHead4
    \o HtmlHead5
    \o HtmlHead6
    \o HtmlHead7
    \o HtmlHead8
    \o HtmlHead9

\* the document between the date and the digest
HtmlMid ==
    "</p>\n"
    \o "\n"
    \o "        "

\* the document after the digest
HtmlFoot ==
    "\n"
    \o "\n"
    \o "        <div class=\"footer\">\n"
    \o "            <p>Generated by your personal <a href=\"https://github.com/zytynski/research-digest\">Research Digest</a></p>\n"
    \o "            <p style=\"font-size: 12px; color: #bbb;\">To modify preferences, edit config.yaml in your repository</p>\n"
    \o "        </div>\n"
    \o "    </body>\n"
    \o "    </html>\n"
    \o "    "

\* the f-string of generate_html_email
HtmlDocument(date, body) == HtmlHead \o date \o HtmlMid \o body \o HtmlFoot

---------------------------------------------------------------------------
(* The state after construction: nothing has run. *)

Init ==
    /\ pc = "start"
    /\ config = <<>>
    /\ fi = 1
    /\ papers = <<>>
    /\ served = <<>>
    /\ api_key = None
    /\ papers_list = <<>>
    /\ prompt = [research_interests |-> "", max_papers |-> 0, papers |-> ""]
    /\ response = ""
    /\ digest_content = ""
    /\ passes = <<>>
    /\ html = ""
    /\ sender_email = None
    /\ sender_password = None
    /\ msg = [Subject |-> "", From |-> "", To |-> "", html |-> ""]
    /\ delivered = <<>>
    /\ console = <<>>
    /\ net = <<>>
    /\ envreads = <<>>
    /\ err = NoError
    /\ failures = <<>>

\* print(line, ...)
ConsolePrint(lines) == console' = console \o lines

\* an exception nothing catches: main() has no handler, the run ends
Raise(stage, e) ==
    /\ pc' = "aborted"
    /\ err' = e
    /\ failures' = Append(failures, stage)

NoRaise == UNCHANGED <<err, failures>>

fetchVars == <<fi, papers, served>>
rankVars == <<api_key, papers_list, prompt, response, digest_content>>
renderVars == <<passes, html>>
sendVars == <<sender_email, sender_password, msg, delivered>>

---------------------------------------------------------------------------
(* main(), up to the call of fetch_papers: the banner, load_config, the    *)
(* line naming the recipient, config['feeds'], papers = [].                *)

MainStart(configs) ==
    /\ pc = "start"
    /\ \E c \in configs, readable \in BOOLEAN :
          IF ~readable
          THEN /\ ConsolePrint(<<"Starting Research Digest Generator...">>)
               /\ Raise("config", Exception("ConfigError", "config.yaml"))
               /\ UNCHANGED config
          ELSE /\ config' = c
               /\ IF "email" \notin DOMAIN c
                  THEN /\ ConsolePrint(<<"Starting Research Digest Generator...">>)
                       /\ Raise("config", Exception("KeyError", "email"))
                  ELSE /\ ConsolePrint(<<"Starting Research Digest Generator...",
                                   "Configuration loaded for: " \o c["email"]>>)
                       /\ IF "feeds" \notin DOMAIN c
                          THEN Raise("config", Exception("KeyError", "feeds"))
                          ELSE pc' = "fetching" /\ NoRaise
    /\ UNCHANGED <<fetchVars, rankVars, renderVars, sendVars, net, envreads>>

---------------------------------------------------------------------------
(* fetch_papers: one iteration of the loop over the feeds. *)

\* feed.entries, the slice forgotten
AllEntries(entries) == entries

\* feed.entries[:50]
RecentEntries(entries) == Slice(entries, FeedCap)

\* the record appended for one entry
PaperRecord(entry, feed_info) ==
    [title |-> Get(entry, "title", ""),
     summary |-> Get(entry, "summary", ""),
     link |-> Get(entry, "link", ""),
     source |-> feed_info.name]

\* the list after the inner loop has appended the entries of one feed
AppendEntries(list, entries, feed_info) ==
    list \o [j \in 1..Len(RecentEntries(entries)) |->
                 PaperRecord(RecentEntries(entries)[j], feed_info)]

\* the loop with a feed that fails parsed a second time before giving up
FetchFeedRetrying(sizes) ==
    /\ pc = "fetching"
    /\ fi <= Len(config["feeds"])
    /\ LET feed_info == config["feeds"][fi] IN
          /\ ConsolePrint(<<"Fetching from " \o feed_info.name \o "...">>)
          /\ \/ \E n \in sizes :
                   /\ net' = Append(net, <<"feedparser.parse", feed_info.url>>)
                   /\ papers' = AppendEntries(papers, FeedEntries(feed_info.url, n),
                                              feed_info)
                   /\ served' = Append(served, n)
                   /\ fi' = fi + 1
                   /\ UNCHANGED pc
                   /\ NoRaise
             \/ /\ net' = net \o <<<<"feedparser.parse", feed_info.url>>,
                                   <<"feedparser.parse", feed_info.url>>>>
                /\ Raise("feed", Exception("FeedError", feed_info.url))
                /\ UNCHANGED fetchVars
    /\ UNCHANGED <<config, rankVars, renderVars, sendVars, envreads>>

FetchFeed(sizes) ==
    /\ pc = "fetching"
    /\ fi <= Len(config["feeds"])
    /\ LET feed_info == config["feeds"][fi] IN
          /\ ConsolePrint(<<"Fetching from " \o feed_info.name \o "...">>)
          /\ net' = Append(net, <<"feedparser.parse", feed_info.url>>)
          /\ \/ \E n \in sizes :
                   /\ papers' = AppendEntries(papers, FeedEntries(feed_info.url, n),
                                              feed_info)
                   /\ served' = Append(served, n)
                   /\ fi' = fi + 1
                   /\ UNCHANGED pc
                   /\ NoRaise
             \/ /\ Raise("feed", Exception("FeedError", feed_info.url))
                /\ UNCHANGED fetchVars
    /\ UNCHANGED <<config, rankVars, renderVars, sendVars, envreads>>

(* fetch_papers returns; main prints the counts and evaluates the          *)
(* arguments of filter_and_rank_papers.                                    *)
FetchReturn ==
    /\ pc = "fetching"
    /\ fi > Len(config["feeds"])
    /\ ConsolePrint(<<"Fetched " \o ToString(Len(papers)) \o " papers from "
                    \o ToString(Len(config["feeds"])) \o " sources",
                "Analyzing papers with AI...">>)
    /\ IF "research_interests" \notin DOMAIN config
       THEN Raise("config", Exception("KeyError", "research_interests"))
       ELSE IF "max_papers" \notin DOMAIN config
       THEN Raise("config", Exception("KeyError", "max_papers"))
       ELSE pc' = "ranking" /\ NoRaise
    /\ UNCHANGED <<config, fetchVars, rankVars, renderVars, sendVars, net, envreads>>

---------------------------------------------------------------------------
(* filter_and_rank_papers, and the assignment of its result in main. *)

\* not value, for what os.environ.get returned
Falsy(value) == value = None \/ value = Some("")

\* api_key is None, in place of not api_key
KeyIsNone(key) == key = None

\* not api_key
KeyMissing(key) == Falsy(key)

\* papers, the slice forgotten
AllCandidates(list) == list

\* papers[:150]
Candidates(list) == Slice(list, CandidateCap)

\* one line of papers_list; i is the number enumerate(..., 1) gives
CandidateLine(i, p) ==
    ToString(i) \o ". **" \o p.title \o "** (Source: " \o p.source \o ")\n"
        \o "   Abstract: " \o Slice(p.summary, AbstractCap) \o "\n"
        \o "   Link: " \o p.link

CandidateLines(list) ==
    [i \in 1..Len(Candidates(list)) |-> CandidateLine(i, Candidates(list)[i])]

\* the parts of the prompt that vary; the instructions around them are fixed
BuildPrompt(lines, research_interests, max_papers) ==
    [research_interests |-> research_interests,
     max_papers |-> max_papers,
     papers |-> Join(lines, "\n")]

filter_and_rank_papers(answers) ==
    /\ pc = "ranking"
    /\ envreads' = Append(envreads, "GEMINI_API_KEY")
    /\ \E key \in EnvValues :
          /\ api_key' = key
          /\ IF KeyMissing(key)
             THEN /\ Raise("credential", Exception("ValueError",
                        "GEMINI_API_KEY not found in environment variables"))
                  /\ UNCHANGED <<papers_list, prompt, response, digest_content, net>>
             ELSE /\ papers_list' = CandidateLines(papers)
                  /\ prompt' = BuildPrompt(CandidateLines(papers),
                                           config["research_interests"],
                                           config["max_papers"])
                  /\ net' = net \o <<<<"genai.configure", key[1]>>,
                                     <<"generate_content", "gemini-2.0-flash-exp">>>>
                  /\ \/ \E text \in answers :
                           /\ response' = text
                           /\ digest_content' = text
                           /\ pc' = "rendering"
                           /\ NoRaise
                     \/ /\ Raise("model", Exception("ModelError", "generate_content"))
                        /\ UNCHANGED <<response, digest_content>>
    /\ UNCHANGED <<config, fetchVars, renderVars, sendVars, console>>

---------------------------------------------------------------------------
(* generate_html_email, and the assignment of its result in main. *)

generate_html_email ==
    /\ pc = "rendering"
    /\ \E now \in Dates :
          /\ passes' = Passes(digest_content)
          /\ html' = HtmlDocument(now.long, Passes(digest_content)[4])
    /\ pc' = "sending"
    /\ UNCHANGED <<config, fetchVars, rankVars, sendVars, console, net, envreads,
                   err, failures>>

---------------------------------------------------------------------------
(* send_email. *)

\* config.get('email_method', 'print')
EmailMethod(c) == Get(c, "email_method", "print")

\* the chain without its else branch: whatever is not gmail is previewed
PreviewByDefault(email_method) ==
    IF email_method = "gmail" THEN "gmail" ELSE "print"

\* the branch of the if / elif / else chain
DeliveryBranch(email_method) ==
    IF email_method = "print" THEN "print"
    ELSE IF email_method = "gmail" THEN "gmail"
    ELSE "else"

\* html_content, the slice forgotten
WholeDocument(html_content) == html_content

\* html_content[:500]
Preview(html_content) == Slice(html_content, PreviewLen)

\* not sender_email and not sender_password
BothCredentialsMissing(address, password) ==
    Falsy(address) /\ Falsy(password)

\* not sender_email or not sender_password
CredentialsMissing(address, password) ==
    Falsy(address) \/ Falsy(password)

\* the message of the ValueError of the else branch
UnknownMethodMessage(email_method) ==
    "Unknown email method: " \o email_method \o ". Use 'print' or 'gmail'"

\* the preview mode
SendPrint ==
    /\ ConsolePrint(<<"Email generation successful!",
                      "Would send to: " \o config["email"],
                      "\nPreview:",
                      Preview(html)>>)
    /\ pc' = "completing"
    /\ NoRaise
    /\ UNCHANGED <<sendVars, net, envreads>>

\* the except clause without its raise: the failure is logged and forgotten
TransportFailureSwallowed(e) ==
    /\ ConsolePrint(<<"Failed to send email: " \o e.msg>>)
    /\ pc' = "completing"
    /\ err' = err
    /\ failures' = Append(failures, "transport")

\* the except clause: a diagnostic line, then the exception goes on
TransportFailure(e) ==
    /\ ConsolePrint(<<"Failed to send email: " \o e.msg>>)
    /\ Raise("transport", e)

\* the try block: connect, log in, send; each call of the relay may raise
Transport(message) ==
    \/ /\ net' = net \o <<<<"smtplib.SMTP_SSL", "smtp.gmail.com:465">>>>
       /\ TransportFailure(Exception("SMTPException", "connect"))
       /\ UNCHANGED delivered
    \/ /\ net' = net \o <<<<"smtplib.SMTP_SSL", "smtp.gmail.com:465">>,
                          <<"login", message.From>>>>
       /\ TransportFailure(Exception("SMTPException", "login"))
       /\ UNCHANGED delivered
    \/ /\ net' = net \o <<<<"smtplib.SMTP_SSL", "smtp.gmail.com:465">>,
                          <<"login", message.From>>,
                          <<"send_message", message.To>>>>
       /\ TransportFailure(Exception("SMTPException", "send_message"))
       /\ UNCHANGED delivered
    \/ /\ net' = net \o <<<<"smtplib.SMTP_SSL", "smtp.gmail.com:465">>,
                          <<"login", message.From>>,
                          <<"send_message", message.To>>>>
       /\ delivered' = Append(delivered, message)
       /\ ConsolePrint(<<"Email sent successfully to " \o config["email"]>>)
       /\ pc' = "completing"
       /\ NoRaise

\* the Gmail mode
SendGmail ==
    /\ envreads' = envreads \o <<"GMAIL_ADDRESS", "GMAIL_APP_PASSWORD">>
    /\ \E address \in EnvValues, password \in EnvValues :
          /\ sender_email' = address
          /\ sender_password' = password
          /\ IF CredentialsMissing(address, password)
             THEN /\ Raise("credential", Exception("ValueError",
                        "Gmail credentials not found. Set GMAIL_ADDRESS and GMAIL_APP_PASSWORD in secrets."))
                  /\ UNCHANGED <<msg, delivered, net, console>>
             ELSE \E now \in Dates :
                     /\ msg' = [Subject |-> "Research Digest - " \o now.iso,
                                From |-> address[1],
                                To |-> config["email"],
                                html |-> html]
                     /\ Transport(msg')

\* any other mode
SendUnknown ==
    /\ Raise("config", Exception("ValueError", UnknownMethodMessage(EmailMethod(config))))
    /\ UNCHANGED <<sendVars, net, envreads, console>>

send_email ==
    /\ pc = "sending"
    /\ CASE DeliveryBranch(EmailMethod(config)) = "print" -> SendPrint
         [] DeliveryBranch(EmailMethod(config)) = "gmail" -> SendGmail
         [] OTHER -> SendUnknown
    /\ UNCHANGED <<config, fetchVars, rankVars, renderVars>>

(* main(), after send_email has returned. *)
Complete ==
    /\ pc = "completing"
    /\ ConsolePrint(<<"Digest generation complete!">>)
    /\ pc' = "done"
    /\ UNCHANGED <<config, fetchVars, rankVars, renderVars, sendVars, net, envreads,
                   err, failures>>

---------------------------------------------------------------------------
(* The specifications. *)

\* the feed lists of the whole-run specification
RunFeeds == 2

RunConfigs == {c \in Configs : "feeds" \in DOMAIN c => Len(c["feeds"]) <= RunFeeds}

RunSizes == {SmallFeed, FeedCap + 1}

\* what the model may answer in the whole-run specification
Answers == {"",
            "No paper stands out this week.",
            "Two themes.\n\n### 1. Title\n\n**Source:** NBER\n\n**Link:** [paper](http://x)\n\n---"}

Next ==
    \/ MainStart(RunConfigs)
    \/ FetchFeed(RunSizes)
    \/ FetchReturn
    \/ filter_and_rank_papers(Answers)
    \/ generate_html_email
    \/ send_email
    \/ Complete

\* a whole run of main()
Spec == Init /\ [][Next]_vars

\* the configurations of the fetch runs: every feed list, preview mode
FetchConfigs == {FullConfig(k, "print") : k \in 0..MaxFeeds}

NextFetch ==
    \/ MainStart(FetchConfigs)
    \/ FetchFeed(FeedSizes)
    \/ FetchReturn
    \/ filter_and_rank_papers({"No paper stands out this week."})

\* a run up to the model's answer, over every feed list and feed length
SpecFetch == Init /\ [][NextFetch]_vars

\* the pieces the texts of the renderer runs are made of
Alphabet == {"###", " ", "\n", "a", "**", "[a](", "b)"}

\* the texts of at most n pieces of the alphabet
RECURSIVE Texts(_)
Texts(n) ==
    IF n = 0 THEN {""}
    ELSE Texts(n - 1) \cup {t \o c : t \in Texts(n - 1), c \in Alphabet}

NextRender ==
    \/ MainStart({FullConfig(0, "print")})
    \/ FetchReturn
    \/ filter_and_rank_papers(Texts(MaxText))
    \/ generate_html_email

\* a run up to the rendered document, over the texts the model may answer
SpecRender == Init /\ [][NextRender]_vars

---------------------------------------------------------------------------
(* What the claims are stated with. *)

\* the number of calls of op made to the outside
Count(op) == Cardinality({i \in 1..Len(net) : net[i][1] = op})

Called(op) == Count(op) > 0

Printed(line) == \E i \in 1..Len(console) : console[i] = line

Contains(s, sub) ==
    \E i \in 1..(Len(s) + 1) : StartsAt(s, i, sub) \/ sub = ""

EndsWith(s, suffix) ==
    Len(suffix) <= Len(s) /\ SubSeq(s, Len(s) - Len(suffix) + 1, Len(s)) = suffix

\* the sum over the feeds of min(50, number of entries)
RECURSIVE CappedTotal(_)
CappedTotal(sizes) ==
    IF Len(sizes) = 0 THEN 0
    ELSE Min(FeedCap, Head(sizes)) + CappedTotal(Tail(sizes))

\* fetch_papers has returned
Fetched == pc \in {"ranking", "rendering", "sending", "completing", "done"}

---------------------------------------------------------------------------
(* C1: the list fetch_papers builds holds, for the feeds parsed so far and *)
(* in their order, the first min(50, n) entries of each feed in entry      *)
(* order, absent fields read as the empty string and 'source' the feed's   *)
(* name; its length is the sum of the min(50, n); and when fetch_papers    *)
(* returns every feed of the list has been parsed.                         *)
C1_SourceThenEntryOrder ==
    /\ Len(papers) = CappedTotal(served)
    /\ \A i \in 1..Len(served) : \A j \in 1..Min(FeedCap, served[i]) :
          LET feed_info == config["feeds"][i]
              entry == Entry(feed_info.url, j)
              record == papers[CappedTotal(SubSeq(served, 1, i - 1)) + j]
              Field(k) == IF k \in DOMAIN entry THEN entry[k] ELSE ""
          IN  /\ record.source = feed_info.name
              /\ record.title = Field("title")
              /\ record.summary = Field("summary")
              /\ record.link = Field("link")
    /\ Fetched => Len(served) = Len(config["feeds"])

\* fetch_papers has returned from a long, a short, an empty and a full feed
C1_Witness ==
    /\ Fetched
    /\ served = <<FeedCap + 1, SmallFeed, 0, FeedCap>>
    /\ Len(papers) = FeedCap + SmallFeed + FeedCap

(* C3: once the prompt is built, papers_list holds min(n, 150) lines, line *)
(* i is numbered i and is made of the i-th paper in fetch order and of     *)
(* nothing else, and the prompt lists these lines joined by newlines.      *)
C3_FirstCandidatesOnly ==
    Called("generate_content") =>
        /\ Len(papers_list) = Min(Len(papers), CandidateCap)
        /\ \A i \in 1..Len(papers_list) :
              LET p == papers[i]
                  abstract == SubSeq(p.summary, 1, Min(AbstractCap, Len(p.summary)))
              IN  papers_list[i] =
                      ToString(i) \o ". **" \o p.title \o "** (Source: " \o p.source
                          \o ")\n   Abstract: " \o abstract \o "\n   Link: " \o p.link
        /\ prompt.papers = Join(papers_list, "\n")

\* the prompt was built from more than 150 papers
C3_Witness ==
    /\ Called("generate_content")
    /\ Len(papers) > CandidateCap
    /\ Len(papers_list) = CandidateCap

---------------------------------------------------------------------------
(* What the claims about ranking and delivery are stated with. *)

Read(variable) == \E i \in 1..Len(envreads) : envreads[i] = variable

\* send_email has run
SendEmailRan == html # "" /\ pc \in {"completing", "done", "aborted"}

\* no connection to the mail relay, no login, no send
NoRelayCall ==
    ~Called("smtplib.SMTP_SSL") /\ ~Called("login") /\ ~Called("send_message")

NoMailCredentialRead == ~Read("GMAIL_ADDRESS") /\ ~Read("GMAIL_APP_PASSWORD")

(* C2: when GEMINI_API_KEY is absent or empty, filter_and_rank_papers ends *)
(* the run with its ValueError and neither genai.configure nor             *)
(* generate_content has been called.                                       *)
C2_NoModelCallWithoutKey ==
    (Read("GEMINI_API_KEY") /\ api_key \in {None, Some("")}) =>
        /\ pc = "aborted"
        /\ err = Exception("ValueError",
                           "GEMINI_API_KEY not found in environment variables")
        /\ ~Called("genai.configure")
        /\ ~Called("generate_content")

\* ranking was reached with fetched papers and an empty key
C2_Witness ==
    /\ Read("GEMINI_API_KEY")
    /\ api_key = Some("")
    /\ Len(papers) > FeedCap
    /\ pc = "aborted"

(* C4: with email_method unset or "print", send_email returns normally,    *)
(* has called nothing outside and read no mail credential, and its last    *)
(* lines on the console are the success line, the line naming the          *)
(* recipient, the preview title and the first 500 characters of the HTML.  *)
C4_PreviewOnly ==
    (SendEmailRan /\ ("email_method" \notin DOMAIN config
                         \/ config["email_method"] = "print")) =>
        LET n == IF pc = "done" THEN Len(console) - 1 ELSE Len(console)
        IN  /\ pc \in {"completing", "done"}
            /\ err = NoError
            /\ NoRelayCall
            /\ NoMailCredentialRead
            /\ delivered = <<>>
            /\ console[n - 3] = "Email generation successful!"
            /\ console[n - 2] = "Would send to: " \o config["email"]
            /\ Len(console[n]) = Min(PreviewLen, Len(html))
            /\ StartsAt(html, 1, console[n])

\* the preview of a document longer than 500 characters, email_method unset
C4_Witness ==
    /\ pc = "done"
    /\ "email_method" \notin DOMAIN config
    /\ Len(html) > PreviewLen
    /\ Len(console[Len(console) - 1]) = PreviewLen

(* C5: in gmail mode, when GMAIL_ADDRESS or GMAIL_APP_PASSWORD is absent,  *)
(* send_email ends the run with its ValueError and the relay has not been  *)
(* connected to, logged in to or sent anything.                            *)
C5_NoConnectionWithoutCredentials ==
    (SendEmailRan /\ "email_method" \in DOMAIN config
        /\ config["email_method"] = "gmail"
        /\ (sender_email = None \/ sender_password = None)) =>
        /\ pc = "aborted"
        /\ err = Exception("ValueError",
               "Gmail credentials not found. Set GMAIL_ADDRESS and GMAIL_APP_PASSWORD in secrets.")
        /\ NoRelayCall
        /\ delivered = <<>>

\* gmail mode with the address set and the password absent
C5_Witness ==
    /\ SendEmailRan
    /\ "email_method" \in DOMAIN config
    /\ config["email_method"] = "gmail"
    /\ sender_email = Some("secret")
    /\ sender_password = None

(* C6: with any email_method other than "print" and "gmail", send_email    *)
(* ends the run with a ValueError whose message holds the value, and has   *)
(* printed no preview, read no mail credential and called no relay.        *)
C6_UnknownMethodRejected ==
    (SendEmailRan /\ "email_method" \in DOMAIN config
        /\ config["email_method"] \notin {"print", "gmail"}) =>
        /\ pc = "aborted"
        /\ err.type = "ValueError"
        /\ Contains(err.msg, "method: " \o config["email_method"] \o ".")
        /\ ~Printed("Email generation successful!")
        /\ ~Printed("\nPreview:")
        /\ NoMailCredentialRead
        /\ NoRelayCall

\* send_email has run with email_method "unsupported"
C6_Witness ==
    /\ SendEmailRan
    /\ "email_method" \in DOMAIN config
    /\ config["email_method"] = "unsupported"
    /\ pc = "aborted"

---------------------------------------------------------------------------
(* What the claims about the whole run are stated with. *)

\* the digest has left the program: previewed on the console or accepted by the relay
DigestOut == Printed("\nPreview:") \/ delivered # <<>>

\* send_email has begun to act
DeliveryAttempted ==
    \/ Printed("Email generation successful!")
    \/ Read("GMAIL_ADDRESS")
    \/ Called("smtplib.SMTP_SSL")

\* fetch, ranking and rendering have completed
StagesCompleted ==
    /\ "feeds" \in DOMAIN config
    /\ Len(served) = Len(config["feeds"])
    /\ Count("feedparser.parse") = Len(config["feeds"])
    /\ Count("generate_content") = 1
    /\ passes # <<>>
    /\ html # ""

\* the stage a call to the outside belongs to
StageOf(op) ==
    CASE op = "feedparser.parse" -> 1
      [] op \in {"genai.configure", "generate_content"} -> 2
      [] OTHER -> 3

IsParse(call) == call[1] = "feedparser.parse"

C8_NothingRetried ==
    /\ LET parsed == SelectSeq(net, IsParse)
       IN  /\ parsed # <<>> => "feeds" \in DOMAIN config
           /\ Len(parsed) <= Len(Get(config, "feeds", <<>>))
           /\ \A i \in 1..Len(parsed) : parsed[i][2] = config["feeds"][i].url
    /\ Count("genai.configure") <= 1
    /\ Count("generate_content") <= 1
    /\ (Read("GEMINI_API_KEY") /\ api_key \notin {None, Some("")}) =>
          Count("generate_content") = 1
    /\ pc \in {"rendering", "sending", "completing", "done"} =>
          digest_content = response
    /\ Count("smtplib.SMTP_SSL") <= 1
    /\ Count("login") <= 1
    /\ Count("send_message") <= 1
    /\ failures # <<>> => pc = "aborted" /\ Len(failures) = 1 /\ err # NoError
    /\ failures = <<"transport">> =>
          /\ err.type = "SMTPException"
          /\ console[Len(console)] = "Failed to send email: " \o err.msg

\* a run that parsed every feed, called the model and failed to log in to the relay
C8_Witness ==
    /\ failures = <<"transport">>
    /\ err.msg = "login"
    /\ Count("feedparser.parse") = RunFeeds
    /\ Count("generate_content") = 1
    /\ ~Called("send_message")

---------------------------------------------------------------------------
(* What the claims about the renderer are stated with. *)

\* generate_html_email has run
Rendered == pc = "sending" /\ Len(passes) = 4

Newlines(s) == {k \in 1..Len(s) : Char(s, k) = "\n"}

\* the number of newlines of s from position p on
RECURSIVE NewlineRun(_, _)
NewlineRun(s, p) ==
    IF p <= Len(s) /\ Char(s, p) = "\n" THEN 1 + NewlineRun(s, p + 1) ELSE 0

\* one line as C9 reads it: a line that begins with ###, whitespace and text
\* becomes the heading of that text (of its last character when the line
\* ends in whitespace), any other line stays as it is
HeadingOfLine(line) ==
    IF ~StartsAt(line, 1, "###") THEN line
    ELSE LET w == SpaceRun(line, 4)
         IN  IF w >= 1 /\ 4 + w <= Len(line)
             THEN "<h3>" \o SubSeq(line, 4 + w, Len(line)) \o "</h3>"
             ELSE IF w >= 2
             THEN "<h3>" \o SubSeq(line, Len(line), Len(line)) \o "</h3>"
             ELSE line

\* the text as C9 reads the heading pass: line by line
RECURSIVE HeadingsByLine(_)
HeadingsByLine(s) ==
    IF Newlines(s) = {} THEN HeadingOfLine(s)
    ELSE HeadingOfLine(SubSeq(s, 1, Least(Newlines(s)) - 1)) \o "\n"
             \o HeadingsByLine(SubSeq(s, Least(Newlines(s)) + 1, Len(s)))

(* C9: after the heading pass, every line of the model's answer that       *)
(* begins with ###, whitespace and text is the heading <h3>text</h3>, and  *)
(* every other line is as it was: a ### inside a line, or one whose text   *)
(* is on a later line, makes no heading.                                   *)
C9_HeadingsOnlyAtLineStart ==
    Rendered => passes[1] = HeadingsByLine(digest_content)

\* s holds a heading marker: ###, whitespace, then a character on the same
\* line as the end of the whitespace
HasHeadingMarker(s) ==
    \E i \in 1..Len(s), g \in 1..Len(s) :
        /\ StartsAt(s, i, "###")
        /\ g > i + 3
        /\ \A k \in (i + 3)..(g - 1) : IsSpace(Char(s, k))
        /\ Char(s, g) # "\n"

\* s holds a pair of ** with text between them on one line
HasBoldPair(s) ==
    \E i \in 1..Len(s), j \in 1..Len(s) :
        /\ StartsAt(s, i, "**")
        /\ StartsAt(s, j, "**")
        /\ j >= i + 3
        /\ NoNewline(s, i + 2, j - 1)

\* s holds a link [label](url), label and url not empty and each on one line
HasLink(s) ==
    \E i \in 1..Len(s), j \in 1..Len(s), e \in 1..Len(s) :
        /\ Char(s, i) = "["
        /\ StartsAt(s, j, "](")
        /\ Char(s, e) = ")"
        /\ j >= i + 2
        /\ e >= j + 3
        /\ NoNewline(s, i + 1, j - 1)
        /\ NoNewline(s, j + 2, e - 1)

NoMarkup(s) == ~HasHeadingMarker(s) /\ ~HasBoldPair(s) /\ ~HasLink(s)

\* s with the double newlines made double breaks, from the left: a run of
\* r newlines becomes r \div 2 double breaks and, when r is odd, a newline
RECURSIVE OnlyBreaks(_)
OnlyBreaks(s) ==
    IF Newlines(s) = {} THEN s
    ELSE LET k == Least(Newlines(s))
             r == NewlineRun(s, k)
         IN  SubSeq(s, 1, k - 1) \o Repeat("<br><br>", r \div 2)
                 \o (IF r % 2 = 1 THEN "\n" ELSE "")
                 \o OnlyBreaks(SubSeq(s, k + r, Len(s)))

(* C10: when the model's answer holds no heading marker, no bold pair and  *)
(* no link, the body after the four passes is the answer with its double   *)
(* newlines made <br><br> and nothing else changed (a single newline       *)
(* stays a newline), and this body is what the document holds.             *)
C10_OnlyBreaksWithoutMarkup ==
    (Rendered /\ NoMarkup(digest_content)) =>
        /\ passes[4] = OnlyBreaks(digest_content)
        /\ EndsWith(html, HtmlMid \o passes[4] \o HtmlFoot)

\* an answer with a lone ** and three newlines: one double break, one newline left
C10_Witness ==
    /\ Rendered
    /\ NoMarkup(digest_content)
    /\ Contains(digest_content, "**")
    /\ Contains(digest_content, "\n\n\n")
    /\ Contains(passes[4], "<br><br>\n")

===========================================================================
